---- MODULE Spec2Model ----
(***************************************************************************)
(* Model of the retrieval notebooks (query_text_files.ipynb and its pdf    *)
(* twin) and of the tools notebook (query_with_functions.ipynb).           *)
(*                                                                         *)
(* A text is a sequence of one-character strings.  The notebooks call      *)
(* RecursiveCharacterTextSplitter(chunk_size, chunk_overlap) with the      *)
(* library defaults separators = ["\n\n", "\n", " ", ""],                  *)
(* keep_separator = True, strip_whitespace = True, length_function = len;  *)
(* the operators below follow that call step by step.                      *)
(***************************************************************************)
EXTENDS Integers, Sequences, FiniteSets, TLC

VARIABLES
    \* retrieval notebook
    data,              \* the files under ./data that the loader globs
    chunk_size,        \* text_splitter._chunk_size
    chunk_overlap,     \* text_splitter._chunk_overlap
    docs,              \* docs = document_loader.load()
    splitted_docs,     \* splitted_docs = text_splitter.split_documents(docs)
    vectordb_for_txt,  \* the index built by FAISS.from_documents
    pickle_file,       \* the content of vectordb_for_txt.pkl
    vectorstore,       \* vectorstore = pickle.load(pickled_file)
    chat_history,      \* the messages of the ConversationBufferMemory
    result,            \* the value returned by the last qa(...) that returned
    qa_raised,         \* the exception the last qa(...) call raised to its cell
    pc,                \* position in the retrieval notebook
    retriever,         \* vectorstore.as_retriever(): the retriever of qa
    condense_prompt,   \* the last prompt sent to the question generator
    prompt,            \* the last prompt sent for the answer
    \* tools notebook
    answer,            \* answer = agent.run(...)
    error_out,         \* the content of error_out.txt
    cell_raised,       \* the exception that left the last cell of the tools notebook
    tpc,               \* position in the tools notebook
    r,                 \* r = requests.get(query_url).json()
    image_url,         \* image_url of the unguarded extraction cell
    image_url2,        \* image_url2 of the guarded extraction cell
    printed,           \* what the guarded extraction cell printed
    \* history variables of the model
    qa_service_error,     \* the service failure during the last qa(...) call
    agent_service_error,  \* the service failure during the last agent.run cell
    submitted,            \* the <<question, answer>> of every qa(...) that returned
    retrievals,           \* every retrieval made: its query and what it found
    overwritten,          \* the content of vectordb_for_txt.pkl that pickle.dump replaced
    calls                 \* the number of qa(...) calls made

\* What the chain is built from and what a qa(...) call sends and retrieves.
queryVars == <<retriever, condense_prompt, prompt, retrievals>>

retrievalVars == <<data, chunk_size, chunk_overlap, docs, splitted_docs,
                   vectordb_for_txt, pickle_file, vectorstore, chat_history,
                   result, qa_raised, pc, qa_service_error, submitted, calls,
                   overwritten, queryVars>>

toolsVars == <<answer, error_out, cell_raised, tpc, agent_service_error,
               r, image_url, image_url2, printed>>

vars == <<retrievalVars, toolsVars>>

----------------------------------------------------------------------------
\* Bounds of the model.
MaxTextLen == 5
MaxChunkSize == 4
MaxFiles == 2
MaxQueries == 3

\* The splitter configuration of the session model: the notebooks' 500 and
\* 100, scaled to the length of the modelled files.
ScaledChunkSize == 4
ScaledChunkOverlap == 2

\* Characters of the modelled texts: two letters and the two whitespace
\* characters the default separators are made of.
Chars == {"a", "b", " ", "\n"}

BoundedTexts == UNION {[1..n -> Chars] : n \in 0..MaxTextLen}

\* The text of the worked example of the chunker contract.
ExampleText == <<"a", "b", "c", "d", "e", "f", "g", "h", "i", "j">>

Texts == BoundedTexts \cup {ExampleText}

----------------------------------------------------------------------------
\* str helpers

IsWhitespace(c) == c \in {" ", "\n"}

RECURSIVE lstrip(_)
lstrip(s) == IF s # <<>> /\ IsWhitespace(Head(s)) THEN lstrip(Tail(s)) ELSE s

RECURSIVE rstrip(_)
rstrip(s) ==
    IF s # <<>> /\ IsWhitespace(s[Len(s)]) THEN rstrip(SubSeq(s, 1, Len(s) - 1)) ELSE s

\* str.strip()
strip(s) == rstrip(lstrip(s))

StartsWith(s, p) == Len(p) <= Len(s) /\ SubSeq(s, 1, Len(p)) = p

\* re.search(re.escape(sep), text) is not None
re_search(sep, text) ==
    \E i \in 1..(Len(text) - Len(sep) + 1) : SubSeq(text, i, i + Len(sep) - 1) = sep

\* separator.join(parts)
RECURSIVE join(_, _)
join(separator, parts) ==
    IF parts = <<>> THEN <<>>
    ELSE IF Len(parts) = 1 THEN parts[1]
    ELSE parts[1] \o separator \o join(separator, Tail(parts))

\* re.split(f"({sep})", text) for a non-empty literal sep: the pieces between
\* the leftmost non-overlapping occurrences, interleaved with the separator.
RECURSIVE re_split(_, _, _)
re_split(sep, text, cur) ==
    IF text = <<>> THEN <<cur>>
    ELSE IF StartsWith(text, sep)
         THEN <<cur, sep>> \o re_split(sep, SubSeq(text, Len(sep) + 1, Len(text)), <<>>)
         ELSE re_split(sep, Tail(text), Append(cur, Head(text)))

\* [s for s in splits if s != ""]
NonEmpty(splits) == SelectSeq(splits, LAMBDA s : s # <<>>)

\* _split_text_with_regex with the "" separator leaving the text whole.
_split_text_with_regex_KeepsWhole(text, separator) ==
    IF separator # <<>>
    THEN LET _splits == re_split(separator, text, <<>>)
             n == Len(_splits)
             pairs == [j \in 1..((n - 1) \div 2) |-> _splits[2 * j] \o _splits[2 * j + 1]]
         IN NonEmpty(<<_splits[1]>> \o pairs)
    ELSE NonEmpty(<<text>>)

\* _split_text_with_regex(text, separator, keep_separator=True)
_split_text_with_regex(text, separator) ==
    IF separator # <<>>
    THEN LET _splits == re_split(separator, text, <<>>)
             n == Len(_splits)
             \* [_splits[i] + _splits[i + 1] for i in range(1, len(_splits), 2)]
             pairs == [j \in 1..((n - 1) \div 2) |-> _splits[2 * j] \o _splits[2 * j + 1]]
         IN NonEmpty(<<_splits[1]>> \o pairs)
    ELSE NonEmpty([i \in 1..Len(text) |-> <<text[i]>>])

----------------------------------------------------------------------------
\* TextSplitter

\* The separators of RecursiveCharacterTextSplitter: "\n\n", "\n", " ", "".
separators == << <<"\n", "\n">>, <<"\n">>, <<" ">>, <<>> >>

\* _join_docs: the joined and stripped text, or nothing (None) when it is
\* empty.  The optional result is a sequence of zero or one text.
_join_docs(current_doc, separator) ==
    LET text == strip(join(separator, current_doc))
    IN IF text = <<>> THEN <<>> ELSE <<text>>

\* The separator length counted when current_doc holds more than `least` docs.
SepLen(separator, current_doc, least) ==
    IF Len(current_doc) > least THEN Len(separator) ELSE 0

\* The overflow test off by one.
Overflows_OffByOne(total, _len, separator, current_doc) ==
    total + _len + SepLen(separator, current_doc, 0) > chunk_size + 1

\* if total + _len + (separator_len if len(current_doc) > 0 else 0) > chunk_size
Overflows(total, _len, separator, current_doc) ==
    total + _len + SepLen(separator, current_doc, 0) > chunk_size

\* The pop loop stopping one character early.
KeepPopping_StopsEarly(total, _len, separator, current_doc) ==
    \/ total > chunk_overlap + 1
    \/ (Overflows(total, _len, separator, current_doc) /\ total > 0)

\* The condition of the while loop that pops from the front of current_doc.
KeepPopping(total, _len, separator, current_doc) ==
    \/ total > chunk_overlap
    \/ (Overflows(total, _len, separator, current_doc) /\ total > 0)

\* The while loop of _merge_splits: <<current_doc, total>> after popping.
RECURSIVE PopFront(_, _, _, _)
PopFront(current_doc, total, _len, separator) ==
    IF KeepPopping(total, _len, separator, current_doc)
    THEN PopFront(Tail(current_doc),
                  total - (Len(current_doc[1]) + SepLen(separator, current_doc, 1)),
                  _len, separator)
    ELSE <<current_doc, total>>

\* _merge_splits forgetting the documents left in current_doc.
FinishMerge_DropsRest(merged, current_doc, separator) == merged

\* The last statements of _merge_splits: the remaining current_doc is joined
\* and appended unless it is None.
FinishMerge(merged, current_doc, separator) ==
    merged \o _join_docs(current_doc, separator)

\* The for loop of _merge_splits from split i on.
RECURSIVE MergeFrom(_, _, _, _, _, _)
MergeFrom(splits, i, separator, merged, current_doc, total) ==
    IF i > Len(splits) THEN FinishMerge(merged, current_doc, separator)
    ELSE LET d == splits[i]
             _len == Len(d)
             flush == Overflows(total, _len, separator, current_doc)
                      /\ Len(current_doc) > 0
             merged1 == IF flush THEN merged \o _join_docs(current_doc, separator)
                        ELSE merged
             popped == IF flush THEN PopFront(current_doc, total, _len, separator)
                       ELSE <<current_doc, total>>
             current1 == Append(popped[1], d)
             total1 == popped[2] + _len + SepLen(separator, current1, 1)
         IN MergeFrom(splits, i + 1, separator, merged1, current1, total1)

_merge_splits(splits, separator) == MergeFrom(splits, 1, separator, <<>>, <<>>, 0)

\* The loop that selects the separator: the index of the first separator that
\* is "" or occurs in the text (the last one when none does).
RECURSIVE PickSeparator(_, _, _)
PickSeparator(text, seps, i) ==
    IF i > Len(seps) THEN Len(seps)
    ELSE IF seps[i] = <<>> \/ re_search(seps[i], text) THEN i
    ELSE PickSeparator(text, seps, i + 1)

\* if self._length_function(s) < self._chunk_size
IsGoodSplit(s) == Len(s) < chunk_size

\* RecursiveCharacterTextSplitter._split_text(text, separators)
RECURSIVE _split_text(_, _)
RECURSIVE SplitLoop(_, _, _, _, _)
_split_text(text, seps) ==
    LET k == PickSeparator(text, seps, 1)
        separator == seps[k]
        \* new_separators stays [] when the chosen separator is ""
        new_separators == IF separator = <<>> THEN <<>>
                          ELSE SubSeq(seps, k + 1, Len(seps))
        splits == _split_text_with_regex(text, separator)
    IN SplitLoop(splits, 1, new_separators, <<>>, <<>>)

\* The for loop of _split_text from split i on; keep_separator = True makes
\* the merge separator "".
SplitLoop(splits, i, new_separators, final_chunks, _good_splits) ==
    IF i > Len(splits)
    THEN IF _good_splits # <<>>
         THEN final_chunks \o _merge_splits(_good_splits, <<>>)
         ELSE final_chunks
    ELSE LET s == splits[i]
         IN IF IsGoodSplit(s)
            THEN SplitLoop(splits, i + 1, new_separators, final_chunks,
                           Append(_good_splits, s))
            ELSE LET flushed == IF _good_splits # <<>>
                                THEN final_chunks \o _merge_splits(_good_splits, <<>>)
                                ELSE final_chunks
                     other_info == IF new_separators = <<>> THEN <<s>>
                                   ELSE _split_text(s, new_separators)
                 IN SplitLoop(splits, i + 1, new_separators,
                              flushed \o other_info, <<>>)

\* split_text returning a text that fits one chunk as it is.
split_text_ShortCut(text) ==
    IF Len(text) <= chunk_size THEN <<text>> ELSE _split_text(text, separators)

\* text_splitter.split_text(text)
split_text(text) == _split_text(text, separators)

\* text_splitter.split_documents(docs): one Document per chunk, in order,
\* carrying the metadata of the document it was cut from.
RECURSIVE split_documents(_)
split_documents(documents) ==
    IF documents = <<>> THEN <<>>
    ELSE LET doc == Head(documents)
             chunks == split_text(doc.page_content)
         IN [i \in 1..Len(chunks) |->
                [page_content |-> chunks[i], metadata |-> doc.metadata]]
            \o split_documents(Tail(documents))

----------------------------------------------------------------------------
\* Values shared by the two notebooks

\* A file that may not exist and a variable that may not be bound hold a
\* sequence of zero or one value.
NoFile == <<>>                \* the file does not exist
FileOf(content) == <<content>>
NoIndex == <<>>               \* the variable is not bound to an index yet
IndexOf(index) == <<index>>
NoResult == <<>>              \* no qa(...) call has returned yet
Undefined == "Undefined"      \* the variable `answer` is not bound yet
NoException == [type |-> "NoException", message |-> ""]  \* nothing was raised

\* The exceptions of the completion and embedding services.
ServiceErrors ==
    { [type |-> "RateLimitError", message |-> "Rate limit reached"],
      [type |-> "APIConnectionError", message |-> "Error communicating with OpenAI"] }

\* str(e)
str(e) == e.message

Questions == {"How old is martin miller?", "What does he love?"}
Answers == {"60 years old", "skiing"}

----------------------------------------------------------------------------
\* Ingestion: load, chunk, embed, index, persist

\* The files a ./data directory can hold.
Files ==
    { [source |-> "data/example.txt", readable |-> TRUE,
       content |-> <<"a", "b", " ", "b", "a", "b">>],
      [source |-> "data/long.txt", readable |-> TRUE,
       content |-> <<"a", "a", "b", "b", "b", "a", "b", "b", "b", "b">>],
      [source |-> "data/broken.txt", readable |-> FALSE, content |-> <<>>] }

IsDirectory(fs) == \A i, j \in 1..Len(fs) : fs[i].source = fs[j].source => i = j

DataDirs ==
    UNION { {fs \in [1..n -> Files] : IsDirectory(fs)} : n \in 0..MaxFiles }

\* The index persisted by an earlier run of the notebook, which ingested a
\* directory that held example.txt alone.
OldIndex ==
    << [page_content |-> <<"a", "b">>, metadata |-> "data/example.txt",
        vector |-> <<1, 1>>],
       [page_content |-> <<"b", "a", "b">>, metadata |-> "data/example.txt",
        vector |-> <<1, 2>>] >>

Count(text, c) == Cardinality({i \in 1..Len(text) : text[i] = c})

\* The embedding service: one fixed-dimension vector per text.
embed_text(text) == <<Count(text, "a"), Count(text, "b")>>

\* FAISS.from_documents(documents, embeddings): one entry per document, in
\* order, each with the embedding of its text.
from_documents(documents) ==
    [i \in 1..Len(documents) |->
        [page_content |-> documents[i].page_content,
         metadata |-> documents[i].metadata,
         vector |-> embed_text(documents[i].page_content)]]

\* pickle.dumps(index): the object graph as a stream, the documents of the
\* docstore and the vectors of the flat index apart, closed by the STOP opcode.
dumps(index) ==
    [docstore |-> [i \in 1..Len(index) |->
                      [page_content |-> index[i].page_content,
                       metadata |-> index[i].metadata]],
     vectors |-> [i \in 1..Len(index) |-> index[i].vector],
     stop |-> TRUE]

\* pickle.loads reading the documents of the docstore in reverse order.
loads_Misaligned(content) ==
    [i \in 1..Len(content.docstore) |->
        [page_content |-> content.docstore[Len(content.docstore) + 1 - i].page_content,
         metadata |-> content.docstore[Len(content.docstore) + 1 - i].metadata,
         vector |-> content.vectors[i]]]

\* pickle.loads(content): the index rebuilt from the stream.
loads(content) ==
    [i \in 1..Len(content.docstore) |->
        [page_content |-> content.docstore[i].page_content,
         metadata |-> content.docstore[i].metadata,
         vector |-> content.vectors[i]]]

\* A stream cut before its end.
Truncated(content) == [content EXCEPT !.stop = FALSE]

\* open(..., 'rb') finds the file and pickle.load reads a whole stream.
CanLoad(file) == file # NoFile /\ file[1].stop

\* docs = document_loader.load(): one Document per file.
LoadDocuments ==
    /\ pc = "start"
    /\ \A i \in 1..Len(data) : data[i].readable
    /\ docs' = [i \in 1..Len(data) |->
                   [page_content |-> data[i].content, metadata |-> data[i].source]]
    /\ pc' = "loaded"
    /\ UNCHANGED <<data, chunk_size, chunk_overlap, splitted_docs, vectordb_for_txt,
                   pickle_file, vectorstore, chat_history, result, qa_raised,
                   qa_service_error, submitted, calls>>
    /\ UNCHANGED queryVars
    /\ UNCHANGED overwritten
    /\ UNCHANGED toolsVars

\* document_loader.load() skipping the files it cannot read.
LoadDocumentsRaises_SkipsFile ==
    /\ pc = "start"
    /\ \E i \in 1..Len(data) : ~data[i].readable
    /\ docs' = LET kept == SelectSeq(data, LAMBDA f : f.readable)
               IN [i \in 1..Len(kept) |->
                      [page_content |-> kept[i].content, metadata |-> kept[i].source]]
    /\ pc' = "loaded"
    /\ UNCHANGED <<data, chunk_size, chunk_overlap, splitted_docs,
                   vectordb_for_txt, pickle_file, vectorstore, chat_history, result,
                   qa_raised, qa_service_error, submitted, calls>>
    /\ UNCHANGED queryVars
    /\ UNCHANGED overwritten
    /\ UNCHANGED toolsVars

\* document_loader.load() raises on a file it cannot read; the run stops.
LoadDocumentsRaises ==
    /\ pc = "start"
    /\ \E i \in 1..Len(data) : ~data[i].readable
    /\ pc' = "load_raised"
    /\ UNCHANGED <<data, chunk_size, chunk_overlap, docs, splitted_docs,
                   vectordb_for_txt, pickle_file, vectorstore, chat_history, result,
                   qa_raised, qa_service_error, submitted, calls>>
    /\ UNCHANGED queryVars
    /\ UNCHANGED overwritten
    /\ UNCHANGED toolsVars

\* splitted_docs = text_splitter.split_documents(docs)
SplitDocuments ==
    /\ pc = "loaded"
    /\ splitted_docs' = split_documents(docs)
    /\ pc' = "split"
    /\ UNCHANGED <<data, chunk_size, chunk_overlap, docs, vectordb_for_txt,
                   pickle_file, vectorstore, chat_history, result, qa_raised,
                   qa_service_error, submitted, calls>>
    /\ UNCHANGED queryVars
    /\ UNCHANGED overwritten
    /\ UNCHANGED toolsVars

\* The cell adding the new entries to the index already in the file.
BuildIndex_MergesOldFile ==
    /\ pc = "split"
    /\ splitted_docs # <<>>
    /\ vectordb_for_txt' = IndexOf(from_documents(splitted_docs))
    /\ pickle_file' = IF CanLoad(pickle_file)
                      THEN FileOf(dumps(loads(pickle_file[1]) \o vectordb_for_txt'[1]))
                      ELSE FileOf(dumps(vectordb_for_txt'[1]))
    /\ overwritten' = pickle_file
    /\ pc' = "indexed"
    /\ UNCHANGED <<data, chunk_size, chunk_overlap, docs, splitted_docs, vectorstore,
                   chat_history, result, qa_raised, qa_service_error, submitted, calls>>
    /\ UNCHANGED queryVars
    /\ UNCHANGED toolsVars

\* vectordb_for_txt = FAISS.from_documents(splitted_docs, embeddings), then
\* pickle.dump(vectordb_for_txt, file) with the file opened in mode 'wb'.
BuildIndex ==
    /\ pc = "split"
    /\ splitted_docs # <<>>
    /\ vectordb_for_txt' = IndexOf(from_documents(splitted_docs))
    /\ pickle_file' = FileOf(dumps(vectordb_for_txt'[1]))
    /\ overwritten' = pickle_file
    /\ pc' = "indexed"
    /\ UNCHANGED <<data, chunk_size, chunk_overlap, docs, splitted_docs, vectorstore,
                   chat_history, result, qa_raised, qa_service_error, submitted, calls>>
    /\ UNCHANGED queryVars
    /\ UNCHANGED toolsVars

\* FAISS.from_documents raises before the file is opened: the embedding
\* service fails, or there is no chunk to take the vector dimension from.
BuildIndexRaises ==
    /\ pc = "split"
    /\ pc' = "index_raised"
    /\ UNCHANGED <<data, chunk_size, chunk_overlap, docs, splitted_docs,
                   vectordb_for_txt, pickle_file, vectorstore, chat_history, result,
                   qa_raised, qa_service_error, submitted, calls>>
    /\ UNCHANGED queryVars
    /\ UNCHANGED overwritten
    /\ UNCHANGED toolsVars

\* Between the cell that writes vectordb_for_txt.pkl and the cell that reads
\* it, the file is removed or cut short outside the notebook.
PickleFileDamaged ==
    /\ pc = "indexed"
    /\ CanLoad(pickle_file)
    /\ pickle_file' \in {NoFile, FileOf(Truncated(pickle_file[1]))}
    /\ UNCHANGED <<data, chunk_size, chunk_overlap, docs, splitted_docs,
                   vectordb_for_txt, vectorstore, chat_history, result, qa_raised,
                   qa_service_error, submitted, calls, pc>>
    /\ UNCHANGED queryVars
    /\ UNCHANGED overwritten
    /\ UNCHANGED toolsVars

\* pickle.load(pickled_file) going on with an empty index when the file is
\* missing or cut short.
LoadIndexRaises_Continues ==
    /\ pc = "indexed"
    /\ ~CanLoad(pickle_file)
    /\ vectorstore' = IndexOf(<<>>)
    /\ pc' = "unpickled"
    /\ UNCHANGED <<data, chunk_size, chunk_overlap, docs, splitted_docs,
                   vectordb_for_txt, pickle_file, chat_history, result, qa_raised,
                   qa_service_error, submitted, calls>>
    /\ UNCHANGED queryVars
    /\ UNCHANGED overwritten
    /\ UNCHANGED toolsVars

\* open(..., 'rb') or pickle.load(pickled_file) raises: the file is missing
\* or the stream is cut short; the run stops.
LoadIndexRaises ==
    /\ pc = "indexed"
    /\ ~CanLoad(pickle_file)
    /\ pc' = "unpickle_raised"
    /\ UNCHANGED <<data, chunk_size, chunk_overlap, docs, splitted_docs,
                   vectordb_for_txt, pickle_file, vectorstore, chat_history, result,
                   qa_raised, qa_service_error, submitted, calls>>
    /\ UNCHANGED queryVars
    /\ UNCHANGED overwritten
    /\ UNCHANGED toolsVars

\* The load cell run without waiting for the ingestion cells.
LoadIndex_BeforeIngestion ==
    /\ pc \in {"start", "indexed"}
    /\ CanLoad(pickle_file)
    /\ vectorstore' = IndexOf(loads(pickle_file[1]))
    /\ pc' = "unpickled"
    /\ UNCHANGED <<data, chunk_size, chunk_overlap, docs, splitted_docs,
                   vectordb_for_txt, pickle_file, chat_history, result, qa_raised,
                   qa_service_error, submitted, calls>>
    /\ UNCHANGED queryVars
    /\ UNCHANGED overwritten
    /\ UNCHANGED toolsVars

\* vectorstore = pickle.load(pickled_file)
LoadIndex ==
    /\ pc = "indexed"
    /\ CanLoad(pickle_file)
    /\ vectorstore' = IndexOf(loads(pickle_file[1]))
    /\ pc' = "unpickled"
    /\ UNCHANGED <<data, chunk_size, chunk_overlap, docs, splitted_docs,
                   vectordb_for_txt, pickle_file, chat_history, result, qa_raised,
                   qa_service_error, submitted, calls>>
    /\ UNCHANGED queryVars
    /\ UNCHANGED overwritten
    /\ UNCHANGED toolsVars

\* The number of documents a retriever returns when as_retriever() is given
\* no search_kwargs.
DefaultK == 4

NoRetriever == [search_type |-> "none", k |-> 0]

\* vectorstore.as_retriever() / vectorstore.as_retriever(search_type="similarity")
as_retriever == [search_type |-> "similarity", k |-> DefaultK]

\* The embedding service on a question.
embed_query(question) ==
    IF question = "How old is martin miller?" THEN <<1, 1>> ELSE <<0, 2>>

\* The metric of the flat index: the squared L2 distance.
distance(u, v) ==
    (u[1] - v[1]) * (u[1] - v[1]) + (u[2] - v[2]) * (u[2] - v[2])

\* The number of entries the search puts before entry i: the nearer ones and,
\* among equally near ones, the ones added earlier.
Rank(index, vector, i) ==
    Cardinality({j \in 1..Len(index) :
        \/ distance(index[j].vector, vector) < distance(index[i].vector, vector)
        \/ /\ distance(index[j].vector, vector) = distance(index[i].vector, vector)
           /\ j < i})

\* The k nearest entries, fewer when the index has fewer.
KNearest_OneShort(index, vector, k) ==
    LET n == IF k - 1 < Len(index) THEN k - 1 ELSE Len(index)
    IN [nth \in 1..n |-> CHOOSE i \in 1..Len(index) : Rank(index, vector, i) = nth - 1]

\* index.search(vector, k): the positions of the k nearest entries, nearest
\* first; fewer when the index has fewer.
KNearest(index, vector, k) ==
    LET n == IF k < Len(index) THEN k ELSE Len(index)
    IN [nth \in 1..n |-> CHOOSE i \in 1..Len(index) : Rank(index, vector, i) = nth - 1]

\* similarity_search_by_vector: the Documents of the k nearest entries.
similarity_search(index, vector, k) ==
    CHOOSE documents \in
        { [nth \in 1..Len(found) |->
              [page_content |-> index[found[nth]].page_content,
               metadata |-> index[found[nth]].metadata]] :
          found \in {KNearest(index, vector, k)} } : TRUE

\* _get_docs with the number of documents shrinking as the history grows.
_get_docs_HistoryAware(question, inputs) ==
    similarity_search(vectorstore[1], embed_query(question),
                      IF retriever.k > Len(inputs.chat_history)
                      THEN retriever.k - Len(inputs.chat_history) ELSE 1)

\* _get_docs(question, inputs): retriever.get_relevant_documents(question);
\* the inputs are not used.
_get_docs(question, inputs) ==
    similarity_search(vectorstore[1], embed_query(question), retriever.k)

\* chat_history = ConversationBufferMemory(...) and
\* qa = ConversationalRetrievalChain.from_llm(llm, memory=chat_history,
\*                                            retriever=vectorstore.as_retriever())
BuildChain ==
    /\ pc = "unpickled"
    /\ chat_history' = <<>>
    /\ retriever' = as_retriever
    /\ pc' = "ready"
    /\ UNCHANGED <<condense_prompt, prompt, retrievals>>
    /\ UNCHANGED <<data, chunk_size, chunk_overlap, docs, splitted_docs,
                   vectordb_for_txt, pickle_file, vectorstore, result, qa_raised,
                   qa_service_error, submitted, calls>>
    /\ UNCHANGED overwritten
    /\ UNCHANGED toolsVars

----------------------------------------------------------------------------
\* The retrieval QA loop: qa({'question': question})

HumanMessage(content) == [type |-> "human", content |-> content]
AIMessage(content) == [type |-> "ai", content |-> content]

\* save_context putting the new exchange in front of the messages.
save_context_Prepends(messages, question, ai_answer) ==
    <<HumanMessage(question), AIMessage(ai_answer)>> \o messages

\* save_context keeping only the latest exchange.
save_context_KeepsLatest(messages, question, ai_answer) ==
    <<HumanMessage(question), AIMessage(ai_answer)>>

\* save_context storing the answer before the question.
save_context_AnswerFirst(messages, question, ai_answer) ==
    messages \o <<AIMessage(ai_answer), HumanMessage(question)>>

\* chat_history.save_context(inputs, outputs): the question of the inputs as
\* a human message, then the answer of the outputs as an AI message.
save_context(messages, question, ai_answer) ==
    messages \o <<HumanMessage(question), AIMessage(ai_answer)>>

\* The service calls of one qa(...) call, in order: the question generator
\* condenses the question (only when the history is not empty), the
\* retriever embeds the question, the combine-documents chain asks for the
\* answer.
ServiceCalls(messages) ==
    IF messages = <<>> THEN {"embed_query", "answer"}
    ELSE {"condense_question", "embed_query", "answer"}

NoPrompt == <<>>              \* no prompt was sent yet

\* The input variables of PROMPT and of the question generator's
\* CONDENSE_QUESTION_PROMPT.
PROMPT == {"context", "question"}
CONDENSE_QUESTION_PROMPT == {"chat_history", "question"}

\* prompt.format_prompt(**{k: inputs[k] for k in prompt.input_variables}):
\* the template filled with its input variables, the other inputs dropped.
format_prompt(input_variables, inputs) == [v \in input_variables |-> inputs[v]]

\* _get_chat_history(messages): one "Human: ..." or "Assistant: ..." line
\* per message.
_get_chat_history(messages) ==
    [i \in 1..Len(messages) |->
        <<IF messages[i].type = "human" THEN "Human: " ELSE "Assistant: ",
          messages[i].content>>]

\* The inputs of the combine-documents chain: the documents joined by a blank
\* line as context, beside the question and the history string.
stuff_inputs(documents, question, chat_history_str) ==
    [context |-> join(<<"\n", "\n">>,
                      [i \in 1..Len(documents) |-> documents[i].page_content]),
     question |-> question,
     chat_history |-> chat_history_str]

\* The prompt for the answer filled with the question as the user typed it.
answer_prompt_OriginalQuestion(documents, question, new_question, chat_history_str) ==
    format_prompt(PROMPT, stuff_inputs(documents, question, chat_history_str))

\* The prompt for the answer: PROMPT filled from the retrieved documents and
\* the question the question generator returned.
answer_prompt(documents, question, new_question, chat_history_str) ==
    format_prompt(PROMPT, stuff_inputs(documents, new_question, chat_history_str))

\* The questions the question generator can return: the question itself
\* when the history is empty (the generator is not called), else whatever the
\* completion service writes.
CondensedQuestions(messages, question) ==
    IF messages = <<>> THEN {question} ELSE Questions

\* What one qa(...) call sends and retrieves when `reached` is the service
\* call that fails, or "returned" when none does.
Asks(question, new_question, reached) ==
    /\ new_question \in CondensedQuestions(chat_history, question)
    /\ reached = "condense_question" => new_question = question
    /\ \E chat_history_str \in {_get_chat_history(chat_history)} :
          /\ condense_prompt' =
                 IF chat_history # <<>>
                 THEN << format_prompt(CONDENSE_QUESTION_PROMPT,
                                       [question |-> question,
                                        chat_history |-> chat_history_str]) >>
                 ELSE condense_prompt
          /\ IF reached \in {"answer", "returned"}
             THEN \E found \in {_get_docs(new_question,
                                          [question |-> question,
                                           chat_history |-> chat_history])},
                     positions \in {KNearest(vectorstore[1], embed_query(new_question),
                                             retriever.k)} :
                     /\ retrievals' = Append(retrievals,
                                             [question |-> new_question,
                                              history |-> chat_history_str,
                                              positions |-> positions,
                                              docs |-> found])
                     /\ prompt' = << answer_prompt(found, question, new_question,
                                                   chat_history_str) >>
             ELSE UNCHANGED <<retrievals, prompt>>
    /\ UNCHANGED retriever

\* qa(...) returning after the retriever removed an entry from the index.
QaReturns_ConsumesIndex(question, ai_answer) ==
    /\ pc = "ready"
    /\ calls < MaxQueries
    /\ chat_history' = save_context(chat_history, question, ai_answer)
    /\ result' = << [question |-> question, chat_history |-> chat_history',
                     answer |-> ai_answer] >>
    /\ qa_raised' = NoException
    /\ qa_service_error' = NoException
    /\ submitted' = Append(submitted, <<question, ai_answer>>)
    /\ calls' = calls + 1
    /\ \E new_question \in Questions : Asks(question, new_question, "returned")
    /\ vectorstore' = IndexOf(Tail(vectorstore[1]))
    /\ UNCHANGED <<data, chunk_size, chunk_overlap, docs, splitted_docs,
                   vectordb_for_txt, pickle_file, pc>>
    /\ UNCHANGED overwritten
    /\ UNCHANGED toolsVars

\* qa(...) returns: every service call succeeded, the memory saves the
\* exchange and the outputs come back with the memory's messages.
QaReturns(question, ai_answer) ==
    /\ pc = "ready"
    /\ calls < MaxQueries
    /\ chat_history' = save_context(chat_history, question, ai_answer)
    /\ result' = << [question |-> question, chat_history |-> chat_history',
                     answer |-> ai_answer] >>
    /\ qa_raised' = NoException
    /\ qa_service_error' = NoException
    /\ submitted' = Append(submitted, <<question, ai_answer>>)
    /\ calls' = calls + 1
    /\ \E new_question \in Questions : Asks(question, new_question, "returned")
    /\ UNCHANGED <<data, chunk_size, chunk_overlap, docs, splitted_docs,
                   vectordb_for_txt, pickle_file, vectorstore, pc>>
    /\ UNCHANGED overwritten
    /\ UNCHANGED toolsVars

\* qa(...) saving the question to the memory before the service is called.
QaRaises_SavesQuestion(question, failed_call, e) ==
    /\ pc = "ready"
    /\ calls < MaxQueries
    /\ failed_call \in ServiceCalls(chat_history)
    /\ qa_service_error' = e
    /\ qa_raised' = e
    /\ calls' = calls + 1
    /\ \E new_question \in Questions : Asks(question, new_question, failed_call)
    /\ chat_history' = Append(chat_history, HumanMessage(question))
    /\ UNCHANGED <<data, chunk_size, chunk_overlap, docs, splitted_docs,
                   vectordb_for_txt, pickle_file, vectorstore, result,
                   submitted, pc>>
    /\ UNCHANGED overwritten
    /\ UNCHANGED toolsVars

\* qa(...) raises: a service call fails with exception e, Chain.__call__
\* re-raises it before the memory is saved.
QaRaises(question, failed_call, e) ==
    /\ pc = "ready"
    /\ calls < MaxQueries
    /\ failed_call \in ServiceCalls(chat_history)
    /\ qa_service_error' = e
    /\ qa_raised' = e
    /\ calls' = calls + 1
    /\ \E new_question \in Questions : Asks(question, new_question, failed_call)
    /\ UNCHANGED <<data, chunk_size, chunk_overlap, docs, splitted_docs,
                   vectordb_for_txt, pickle_file, vectorstore, chat_history, result,
                   submitted, pc>>
    /\ UNCHANGED overwritten
    /\ UNCHANGED toolsVars

----------------------------------------------------------------------------
\* The tools notebook: the agent.run cells

UnguardedCells == {"run_reviews", "run_distance", "run_airy"}

NextCell(cell) ==
    CASE cell = "run_reviews" -> "run_equation"
      [] cell = "run_equation" -> "run_distance"
      [] cell = "run_distance" -> "run_airy"
      [] cell = "run_airy" -> "wolfram_query"
      [] cell = "wolfram_query" -> "request_plot"
      [] cell = "request_plot" -> "show_plot"
      [] cell = "show_plot" -> "request_distance"
      [] cell = "request_distance" -> "show_distance"
      [] cell = "show_distance" -> "done"

wolframVars == <<r, image_url, image_url2, printed>>

\* answer = agent.run(question) returns.
AgentRunReturns(ai_answer) ==
    /\ tpc \in UnguardedCells
    /\ answer' = ai_answer
    /\ agent_service_error' = NoException
    /\ cell_raised' = NoException
    /\ tpc' = NextCell(tpc)
    /\ UNCHANGED error_out
    /\ UNCHANGED wolframVars
    /\ UNCHANGED retrievalVars

\* answer = agent.run(question) raises: the exception leaves the cell and
\* the run stops.
AgentRunRaises(e) ==
    /\ tpc \in UnguardedCells
    /\ agent_service_error' = e
    /\ cell_raised' = e
    /\ tpc' = "aborted"
    /\ UNCHANGED <<answer, error_out>>
    /\ UNCHANGED wolframVars
    /\ UNCHANGED retrievalVars

\* The cell  try: answer = agent.run("What is 2x+5 = -3x + 7?")  when
\* agent.run returns.
GuardedRunReturns(ai_answer) ==
    /\ tpc = "run_equation"
    /\ answer' = ai_answer
    /\ agent_service_error' = NoException
    /\ cell_raised' = NoException
    /\ tpc' = NextCell(tpc)
    /\ UNCHANGED error_out
    /\ UNCHANGED wolframVars
    /\ UNCHANGED retrievalVars

\* The guarded cell forgetting the earlier answer when agent.run raises.
GuardedRunRaises_ClearsAnswer(e) ==
    /\ tpc = "run_equation"
    /\ agent_service_error' = e
    /\ error_out' = FileOf(str(e))
    /\ cell_raised' = NoException
    /\ tpc' = NextCell(tpc)
    /\ answer' = Undefined
    /\ UNCHANGED wolframVars
    /\ UNCHANGED retrievalVars

\* The same cell when agent.run raises:  except Exception as e  writes str(e)
\* to error_out.txt (opened in mode 'w') and the cell ends normally.
GuardedRunRaises(e) ==
    /\ tpc = "run_equation"
    /\ agent_service_error' = e
    /\ error_out' = FileOf(str(e))
    /\ cell_raised' = NoException
    /\ tpc' = NextCell(tpc)
    /\ UNCHANGED answer
    /\ UNCHANGED wolframVars
    /\ UNCHANGED retrievalVars

----------------------------------------------------------------------------
\* The tools notebook: the Wolfram Alpha cells

NoResponse == <<>>            \* no response was decoded yet
NoUrl == <<>>                 \* the variable is not assigned
NothingPrinted == <<>>

\* The pod that next(res.results) returns.
WolframPods == {"{'@title': 'Result', '@scanner': 'Data'}"}

\* What client.query, next(res.results) and requests.get(...).json() raise.
WolframErrors ==
    { [type |-> "StopIteration", message |-> ""],
      [type |-> "ConnectionError", message |-> "Max retries exceeded"] }

RequestErrors ==
    { [type |-> "ConnectionError", message |-> "Max retries exceeded"],
      [type |-> "JSONDecodeError", message |-> "Expecting value"] }

\* KeyError(key); str() of it is the repr of the key, quotes included.
KeyError(key) == [type |-> "KeyError", message |-> "'" \o key \o "'"]
IndexError == [type |-> "IndexError", message |-> "list index out of range"]

ImageSrc == "https://www6b3.wolframalpha.com/Calculate/MSP/MSP455.gif"

\* The decoded responses of the query API: without "queryresult", without
\* "pods", with no pod, with a pod that lacks "subpods", has no subpod, lacks
\* "img" or lacks "src", and the common structure.
Responses ==
    { [error |-> "Invalid appid"],
      [queryresult |-> [success |-> FALSE]],
      [queryresult |-> [success |-> TRUE, pods |-> <<>>]],
      [queryresult |-> [success |-> TRUE, pods |-> << [title |-> "3DPlot"] >>]],
      [queryresult |-> [success |-> TRUE,
                        pods |-> << [title |-> "3DPlot", subpods |-> <<>>] >>]],
      [queryresult |-> [success |-> TRUE,
                        pods |-> << [title |-> "3DPlot",
                                     subpods |-> << [title |-> ""] >>] >>]],
      [queryresult |-> [success |-> TRUE,
                        pods |-> << [title |-> "3DPlot",
                                     subpods |-> << [title |-> "",
                                                     img |-> [alt |-> "plot"]] >>] >>]],
      [queryresult |-> [success |-> TRUE,
                        pods |-> << [title |-> "3DPlot",
                                     subpods |-> << [title |-> "",
                                                     img |-> [alt |-> "plot",
                                                              src |-> ImageSrc]] >>] >>]] }

\* The outcome of evaluating an expression: a value or a raised exception.
Returned(value) == [raised |-> FALSE, value |-> value, exception |-> NoException]
Raised(e) == [raised |-> TRUE, value |-> "", exception |-> e]

\* pods[0]["subpods"][0]["img"]["src"], evaluated from left to right.
SrcOfPods(pods) ==
    IF Len(pods) = 0 THEN Raised(IndexError)
    ELSE IF "subpods" \notin DOMAIN pods[1] THEN Raised(KeyError("subpods"))
    ELSE IF Len(pods[1].subpods) = 0 THEN Raised(IndexError)
    ELSE IF "img" \notin DOMAIN pods[1].subpods[1] THEN Raised(KeyError("img"))
    ELSE IF "src" \notin DOMAIN pods[1].subpods[1].img THEN Raised(KeyError("src"))
    ELSE Returned(pods[1].subpods[1].img.src)

\* r["queryresult"]["pods"][0]["subpods"][0]["img"]["src"]
SrcOfResponse(response) ==
    IF "queryresult" \notin DOMAIN response THEN Raised(KeyError("queryresult"))
    ELSE IF "pods" \notin DOMAIN response.queryresult THEN Raised(KeyError("pods"))
    ELSE SrcOfPods(response.queryresult.pods)

\* The body of the guarded cell indexing r["queryresult"]["pods"][0]... at
\* once, without .get and without the test of pods.
GuardedSrcOfResponse_IndexesAtOnce(response) ==
    LET src == SrcOfResponse(response)
    IN IF src.raised THEN src ELSE Returned(<<src.value>>)

\* The body of the guarded cell:  pods = r["queryresult"].get('pods', None),
\* then the extraction when pods is neither None nor empty.  The value is the
\* zero or one url that was assigned.
GuardedSrcOfResponse(response) ==
    IF "queryresult" \notin DOMAIN response THEN Raised(KeyError("queryresult"))
    ELSE IF "pods" \notin DOMAIN response.queryresult THEN Returned(NoUrl)
    ELSE IF Len(response.queryresult.pods) = 0 THEN Returned(NoUrl)
    ELSE LET src == SrcOfPods(response.queryresult.pods)
         IN IF src.raised THEN src ELSE Returned(<<src.value>>)

\* res = client.query(...); answer = next(res.results)
WolframQueryReturns(pod) ==
    /\ tpc = "wolfram_query"
    /\ answer' = pod
    /\ cell_raised' = NoException
    /\ tpc' = NextCell(tpc)
    /\ UNCHANGED <<error_out, agent_service_error>>
    /\ UNCHANGED wolframVars
    /\ UNCHANGED retrievalVars

\* The same cell when the query fails or has no result pod.
WolframQueryRaises(e) ==
    /\ tpc = "wolfram_query"
    /\ cell_raised' = e
    /\ tpc' = "aborted"
    /\ UNCHANGED <<answer, error_out, agent_service_error>>
    /\ UNCHANGED wolframVars
    /\ UNCHANGED retrievalVars

\* r = requests.get(query_url).json(), in either request cell.
RequestReturns(response) ==
    /\ tpc \in {"request_plot", "request_distance"}
    /\ r' = <<response>>
    /\ cell_raised' = NoException
    /\ tpc' = NextCell(tpc)
    /\ UNCHANGED <<answer, error_out, agent_service_error>>
    /\ UNCHANGED <<image_url, image_url2, printed>>
    /\ UNCHANGED retrievalVars

\* The request fails or the body is not JSON.
RequestRaises(e) ==
    /\ tpc \in {"request_plot", "request_distance"}
    /\ cell_raised' = e
    /\ tpc' = "aborted"
    /\ UNCHANGED <<answer, error_out, agent_service_error>>
    /\ UNCHANGED wolframVars
    /\ UNCHANGED retrievalVars

\* image_url = r["queryresult"]["pods"][0]["subpods"][0]["img"]["src"]
\* without a guard: an exception leaves the cell and the run stops.
ShowPlot ==
    /\ tpc = "show_plot"
    /\ LET src == SrcOfResponse(r[1])
       IN IF src.raised
          THEN /\ cell_raised' = src.exception
               /\ tpc' = "aborted"
               /\ UNCHANGED image_url
          ELSE /\ cell_raised' = NoException
               /\ tpc' = NextCell(tpc)
               /\ image_url' = <<src.value>>
    /\ UNCHANGED <<answer, error_out, agent_service_error>>
    /\ UNCHANGED <<r, image_url2, printed>>
    /\ UNCHANGED retrievalVars

\* The guarded cell: the extraction inside  try ... except Exception as e,
\* which prints the mismatch message with str(e).
ShowDistance ==
    /\ tpc = "show_distance"
    /\ LET src == GuardedSrcOfResponse(r[1])
       IN IF src.raised
          THEN /\ printed' = <<"wolfram alpha result json structure does not match common structure: ",
                               str(src.exception)>>
               /\ UNCHANGED image_url2
          ELSE /\ image_url2' = IF src.value = NoUrl THEN image_url2 ELSE src.value
               /\ UNCHANGED printed
    /\ cell_raised' = NoException
    /\ tpc' = NextCell(tpc)
    /\ UNCHANGED <<answer, error_out, agent_service_error>>
    /\ UNCHANGED <<r, image_url>>
    /\ UNCHANGED retrievalVars

----------------------------------------------------------------------------
\* Specifications

\* No chain is built and no question was asked.
QueryIdle ==
    /\ retriever = NoRetriever
    /\ condense_prompt = NoPrompt
    /\ prompt = NoPrompt
    /\ retrievals = <<>>

ToolsIdle ==
    /\ answer = Undefined
    /\ error_out = NoFile
    /\ cell_raised = NoException
    /\ agent_service_error = NoException
    /\ tpc = "run_reviews"
    /\ r = NoResponse
    /\ image_url = NoUrl
    /\ image_url2 = NoUrl
    /\ printed = NothingPrinted

\* The retrieval notebook run from its first cell; the persisted index may be
\* left from an earlier run.
Init ==
    /\ data \in DataDirs
    /\ chunk_size = ScaledChunkSize
    /\ chunk_overlap = ScaledChunkOverlap
    /\ docs = <<>>
    /\ splitted_docs = <<>>
    /\ vectordb_for_txt = NoIndex
    /\ pickle_file \in {NoFile, FileOf(dumps(OldIndex))}
    /\ vectorstore = NoIndex
    /\ chat_history = <<>>
    /\ result = NoResult
    /\ qa_raised = NoException
    /\ qa_service_error = NoException
    /\ submitted = <<>>
    /\ calls = 0
    /\ overwritten = NoFile
    /\ QueryIdle
    /\ pc = "start"
    /\ ToolsIdle

Next ==
    \/ LoadDocuments
    \/ LoadDocumentsRaises
    \/ SplitDocuments
    \/ BuildIndex
    \/ BuildIndexRaises
    \/ PickleFileDamaged
    \/ LoadIndexRaises
    \/ LoadIndex
    \/ BuildChain
    \/ \E question \in Questions, ai_answer \in Answers : QaReturns(question, ai_answer)
    \/ \E question \in Questions, failed_call \in {"condense_question", "embed_query", "answer"},
          e \in ServiceErrors : QaRaises(question, failed_call, e)

Spec == Init /\ [][Next]_vars

\* The tools notebook run from its first agent.run cell; error_out.txt may be
\* left from an earlier run.
InitTools ==
    /\ data = <<>>
    /\ chunk_size = ScaledChunkSize
    /\ chunk_overlap = ScaledChunkOverlap
    /\ docs = <<>>
    /\ splitted_docs = <<>>
    /\ vectordb_for_txt = NoIndex
    /\ pickle_file = NoFile
    /\ vectorstore = NoIndex
    /\ chat_history = <<>>
    /\ result = NoResult
    /\ qa_raised = NoException
    /\ qa_service_error = NoException
    /\ submitted = <<>>
    /\ calls = 0
    /\ overwritten = NoFile
    /\ QueryIdle
    /\ pc = "start"
    /\ answer = Undefined
    /\ error_out \in {NoFile} \cup {FileOf(str(e)) : e \in ServiceErrors}
    /\ cell_raised = NoException
    /\ agent_service_error = NoException
    /\ tpc = "run_reviews"
    /\ r = NoResponse
    /\ image_url = NoUrl
    /\ image_url2 = NoUrl
    /\ printed = NothingPrinted

NextTools ==
    \/ \E ai_answer \in Answers : AgentRunReturns(ai_answer)
    \/ \E e \in ServiceErrors : AgentRunRaises(e)
    \/ \E ai_answer \in Answers : GuardedRunReturns(ai_answer)
    \/ \E e \in ServiceErrors : GuardedRunRaises(e)
    \/ \E pod \in WolframPods : WolframQueryReturns(pod)
    \/ \E e \in WolframErrors : WolframQueryRaises(e)
    \/ \E response \in Responses : RequestReturns(response)
    \/ \E e \in RequestErrors : RequestRaises(e)
    \/ ShowPlot
    \/ ShowDistance

SpecTools == InitTools /\ [][NextTools]_vars

\* The chunker on its own: every bounded text under every configuration
\* 0 <= chunk_overlap < chunk_size.
InitChunker ==
    /\ data = <<>>
    /\ chunk_size \in 1..MaxChunkSize
    /\ chunk_overlap \in 0..(chunk_size - 1)
    /\ \E text \in Texts :
           docs = << [page_content |-> text, metadata |-> "data/example.txt"] >>
    /\ splitted_docs = <<>>
    /\ vectordb_for_txt = NoIndex
    /\ pickle_file = NoFile
    /\ vectorstore = NoIndex
    /\ chat_history = <<>>
    /\ result = NoResult
    /\ qa_raised = NoException
    /\ qa_service_error = NoException
    /\ submitted = <<>>
    /\ calls = 0
    /\ overwritten = NoFile
    /\ QueryIdle
    /\ pc = "loaded"
    /\ ToolsIdle

NextChunker == SplitDocuments

SpecChunker == InitChunker /\ [][NextChunker]_vars

----------------------------------------------------------------------------
\* Properties of the chunker (checked under SpecChunker).

\* The text of the single loaded document and the texts of its chunks.
SourceText == docs[1].page_content
ChunkTexts == [i \in 1..Len(splitted_docs) |-> splitted_docs[i].page_content]

Min(a, b) == IF a < b THEN a ELSE b
Prefix(s, k) == SubSeq(s, 1, k)
Suffix(s, k) == SubSeq(s, Len(s) - k + 1, Len(s))
DropFirst(s, k) == SubSeq(s, k + 1, Len(s))

\* A text without natural boundary: no paragraph, line or word separator.
NoBoundary(text) == \A i \in 1..Len(text) : ~IsWhitespace(text[i])

\* Chunks i.. can be stitched to `rest`: each chunk drops a leading overlap of
\* at most chunk_overlap characters that it shares with its predecessor.
RECURSIVE CanStitch(_, _, _)
CanStitch(chunks, i, rest) ==
    IF i > Len(chunks) THEN rest = <<>>
    ELSE \E k \in 0..Min(chunk_overlap, Len(chunks[i])) :
            /\ i = 1 => k = 0
            /\ i > 1 => /\ k <= Len(chunks[i - 1])
                        /\ Suffix(chunks[i - 1], k) = Prefix(chunks[i], k)
            /\ LET piece == DropFirst(chunks[i], k)
               IN /\ StartsWith(rest, piece)
                  /\ CanStitch(chunks, i + 1, DropFirst(rest, Len(piece)))

\* The stitched text when every chunk after the first drops exactly its
\* first chunk_overlap characters.
RECURSIVE StitchExact(_, _)
StitchExact(chunks, i) ==
    IF i > Len(chunks) THEN <<>>
    ELSE (IF i = 1 THEN chunks[1] ELSE DropFirst(chunks[i], chunk_overlap))
         \o StitchExact(chunks, i + 1)

\* C1 (as stated): for every text, maximum length and overlap, stitching the
\* chunks in order, dropping each chunk's leading overlap with its
\* predecessor, yields exactly the text.
C1_RoundTripAnyText ==
    pc = "split" => CanStitch(ChunkTexts, 1, SourceText)

\* C1 (amended): for every text without whitespace, stitching the chunks in
\* order, dropping the first chunk_overlap characters of every chunk after the
\* first, yields exactly the text.
C1_RoundTripNoBoundary ==
    (pc = "split" /\ NoBoundary(SourceText))
        => StitchExact(ChunkTexts, 1) = SourceText

C1_Witness ==
    /\ pc = "split"
    /\ NoBoundary(SourceText)
    /\ Len(ChunkTexts) >= 3
    /\ chunk_overlap >= 1
    /\ StitchExact(ChunkTexts, 1) = SourceText

\* C2: every chunk produced by the chunker is at most chunk_size long, for
\* every text and every configured chunk_size.
C2_ChunkLengthBound ==
    pc = "split" => \A i \in 1..Len(ChunkTexts) : Len(ChunkTexts[i]) <= chunk_size

C2_Witness ==
    /\ pc = "split"
    /\ ~NoBoundary(SourceText)
    /\ Len(ChunkTexts) >= 2
    /\ \E i \in 1..Len(ChunkTexts) : Len(ChunkTexts[i]) = chunk_size
    /\ Len(SourceText) > chunk_size

\* Consecutive chunks i and i+1 share chunk_overlap characters: the last
\* chunk_overlap characters of the earlier one are the first chunk_overlap
\* characters of the later one.
SharesOverlap(chunks, i) ==
    /\ Len(chunks[i]) >= chunk_overlap
    /\ Len(chunks[i + 1]) >= chunk_overlap
    /\ Suffix(chunks[i], chunk_overlap) = Prefix(chunks[i + 1], chunk_overlap)

\* C3 (as stated): for every text that yields two or more chunks, each pair
\* of consecutive chunks shares exactly chunk_overlap characters, except
\* possibly the pair that ends in the last chunk; chunk_overlap < chunk_size.
C3_OverlapAnyText ==
    pc = "split" =>
        /\ chunk_overlap < chunk_size
        /\ \A i \in 1..(Len(ChunkTexts) - 2) : SharesOverlap(ChunkTexts, i)

\* C3 (amended): for every text without whitespace that yields two or more
\* chunks, each pair of consecutive chunks, the last pair included, shares
\* exactly chunk_overlap characters, and the later chunk goes on beyond them;
\* chunk_overlap < chunk_size.
C3_OverlapNoBoundary ==
    (pc = "split" /\ NoBoundary(SourceText)) =>
        /\ chunk_overlap < chunk_size
        /\ \A i \in 1..(Len(ChunkTexts) - 1) :
               /\ SharesOverlap(ChunkTexts, i)
               /\ Len(ChunkTexts[i + 1]) > chunk_overlap

C3_Witness ==
    /\ pc = "split"
    /\ NoBoundary(SourceText)
    /\ Len(ChunkTexts) >= 3
    /\ chunk_overlap >= 2
    /\ \A i \in 1..(Len(ChunkTexts) - 1) : SharesOverlap(ChunkTexts, i)

\* The windows of a hard cut: window i starts (i - 1) * (L - O) characters
\* into the text and is L long (shorter at the end of the text); the last
\* window is the first one that reaches the end of the text.
RECURSIVE Windows(_, _, _, _)
Windows(text, L, O, start) ==
    IF text = <<>> THEN <<>>
    ELSE IF start + L - 1 >= Len(text) THEN <<SubSeq(text, start, Len(text))>>
    ELSE <<SubSeq(text, start, start + L - 1)>> \o Windows(text, L, O, start + L - O)

\* C4: a text without natural boundary is cut at exactly chunk_size and the
\* cut steps forward by chunk_size - chunk_overlap; "abcdefghij" with
\* chunk_size 4 and chunk_overlap 2 yields ["abcd", "cdef", "efgh", "ghij"].
C4_HardCut ==
    (pc = "split" /\ NoBoundary(SourceText)) =>
        /\ ChunkTexts = Windows(SourceText, chunk_size, chunk_overlap, 1)
        /\ (SourceText = ExampleText /\ chunk_size = 4 /\ chunk_overlap = 2) =>
               ChunkTexts = << <<"a", "b", "c", "d">>, <<"c", "d", "e", "f">>,
                               <<"e", "f", "g", "h">>, <<"g", "h", "i", "j">> >>

C4_Witness ==
    /\ pc = "split"
    /\ SourceText = ExampleText
    /\ chunk_size = 4
    /\ chunk_overlap = 2
    /\ Len(ChunkTexts) = 4

\* C5: chunking an empty text yields the empty chunk sequence, for every
\* chunk_size and chunk_overlap with 0 <= chunk_overlap < chunk_size.
C5_EmptyText ==
    (pc = "split" /\ SourceText = <<>>) => splitted_docs = <<>>

C5_Witness ==
    /\ pc = "split"
    /\ SourceText = <<>>
    /\ chunk_size = MaxChunkSize
    /\ splitted_docs = <<>>

----------------------------------------------------------------------------
\* Properties of the retrieval QA loop (checked under Spec) and of the agent
\* cells (C8, checked under SpecTools).

\* The (question, answer) entries of the history: messages 2i-1 and 2i.
HistoryEntries(messages) ==
    [i \in 1..(Len(messages) \div 2) |->
        <<messages[2 * i - 1].content, messages[2 * i].content>>]

IsPrefixOf(s, t) == Len(s) <= Len(t) /\ SubSeq(t, 1, Len(s)) = s

\* A step that is one qa(...) call.
QaStep == calls' = calls + 1

\* C6: after N qa(...) calls that returned, the history holds exactly N
\* (question, answer) entries, and the i-th entry is the i-th question
\* submitted together with its answer.
C6_HistoryCountAndOrder ==
    /\ Len(chat_history) = 2 * Len(submitted)
    /\ HistoryEntries(chat_history) = submitted

C6_Witness ==
    /\ calls = MaxQueries
    /\ Len(submitted) = 2
    /\ submitted[1] # submitted[2]
    /\ HistoryEntries(chat_history) = submitted

\* C7: a qa(...) call during which a service fails leaves the history as it
\* was before the call: neither the question nor an answer is appended.
C7_NoPartialUpdate ==
    [][(QaStep /\ qa_service_error' # NoException) => chat_history' = chat_history]_vars

C7_Witness ==
    /\ pc = "ready"
    /\ qa_service_error # NoException
    /\ Len(chat_history) = 2
    /\ calls = 2

\* C8: whenever the completion service fails during a query call, qa(...) in
\* the retrieval notebooks or agent.run(...) in the tools notebook, the error
\* leaves the call's cell as a raised exception; no query step ends normally
\* after a service failure.
C8_ErrorsPropagate ==
    /\ qa_service_error # NoException => qa_raised = qa_service_error
    /\ agent_service_error # NoException => cell_raised = agent_service_error

\* C9: the history before a step is a prefix of the history after it, for
\* every step of the session; no entry is removed, reordered or rewritten.
C9_HistoryAppendOnly ==
    [][IsPrefixOf(chat_history, chat_history')]_vars

C9_Witness ==
    /\ calls = MaxQueries
    /\ Len(chat_history) = 4
    /\ qa_service_error # NoException
    /\ chat_history[1].content # chat_history[3].content

\* C10: a qa(...) call, returning or raising, leaves the loaded vector index
\* as it was: the same chunks with the same embeddings.
C10_RetrievalReadOnly ==
    [][QaStep => (vectorstore # NoIndex /\ vectorstore' = vectorstore)]_vars

C10_Witness ==
    /\ calls = MaxQueries
    /\ Len(submitted) = 2
    /\ vectorstore # NoIndex
    /\ Len(vectorstore[1]) >= 3
    /\ vectorstore = vectordb_for_txt

----------------------------------------------------------------------------
\* Properties of retrieval (checked under Spec).

LastRetrieval == retrievals[Len(retrievals)]

\* A step in which a qa(...) call retrieves.
Retrieves == Len(retrievals') > Len(retrievals)

\* C11: over the loaded index, two retrievals for the same query (the same
\* query embedding) return the same chunks in the same order, whatever was
\* asked in between and whatever the history was.
C11_RetrievalDeterminism ==
    \A i, j \in 1..Len(retrievals) :
        retrievals[i].question = retrievals[j].question
            => /\ retrievals[i].docs = retrievals[j].docs
               /\ retrievals[i].positions = retrievals[j].positions

C11_Witness ==
    /\ Len(retrievals) = 3
    /\ retrievals[1].question = retrievals[3].question
    /\ retrievals[2].question # retrievals[1].question
    /\ retrievals[1].history = <<>>
    /\ Len(retrievals[3].history) = 4
    /\ Len(retrievals[3].docs) >= 3
    /\ retrievals[3].docs = retrievals[1].docs

----------------------------------------------------------------------------
\* Properties of ingestion and of the persisted index (checked under Spec).

\* The ingestion cells have run to their end: the documents were loaded and
\* chunked, the index was built from the chunks and written to the file.
IngestionCompleted ==
    /\ pc \in {"indexed", "unpickled", "ready", "unpickle_raised"}
    /\ splitted_docs # <<>>
    /\ vectordb_for_txt # NoIndex
    /\ vectordb_for_txt[1] = from_documents(splitted_docs)

\* C13: a qa(...) call is only made when the ingestion cells have completed,
\* the index is loaded and the chain is built; from the first call on,
\* neither the index in memory nor the persisted file is written.
C13_IngestBeforeQuery ==
    [][/\ QaStep => (pc = "ready" /\ IngestionCompleted /\ vectorstore # NoIndex)
       /\ calls > 0 => /\ pc' = "ready"
                       /\ vectordb_for_txt' = vectordb_for_txt
                       /\ pickle_file' = pickle_file
                       /\ vectorstore' = vectorstore
                       /\ splitted_docs' = splitted_docs
                       /\ docs' = docs]_vars

C13_Witness ==
    /\ calls = 2
    /\ Len(retrievals) = 2
    /\ IngestionCompleted
    /\ pickle_file = FileOf(dumps(vectordb_for_txt[1]))
    /\ overwritten # NoFile

\* C14: when vectordb_for_txt.pkl is missing or cut short at the load cell,
\* the cell raises and the run ends there with no index loaded and no
\* qa(...) call made; a qa(...) call is only made on an index that was loaded
\* from a whole file after the ingestion completed.
C14_LoadFailureFatal ==
    [][/\ (pc = "indexed" /\ ~CanLoad(pickle_file))
            => (pc' = "unpickle_raised" /\ vectorstore' = NoIndex /\ calls' = 0)
       /\ pc = "unpickle_raised" => (pc' = "unpickle_raised" /\ calls' = calls)
       /\ QaStep => /\ CanLoad(pickle_file)
                    /\ vectorstore = IndexOf(loads(pickle_file[1]))
                    /\ IngestionCompleted]_vars

C14_Witness ==
    /\ pc = "unpickle_raised"
    /\ pickle_file # NoFile
    /\ ~CanLoad(pickle_file)
    /\ vectordb_for_txt # NoIndex
    /\ vectorstore = NoIndex
    /\ calls = 0

\* A file of the directory cannot be read.
UnreadableFile == \E i \in 1..Len(data) : ~data[i].readable

\* C15: with a file that cannot be read in the directory, the only step of
\* the run is the load cell raising: no document is kept, nothing is
\* chunked, no index is built and the persisted file stays as it was; the
\* same holds for the file when building the index raises.
C15_IngestionFailureAborts ==
    [][/\ UnreadableFile => /\ pc' = "load_raised"
                            /\ docs' = <<>>
                            /\ splitted_docs' = <<>>
                            /\ vectordb_for_txt' = NoIndex
                            /\ pickle_file' = pickle_file
       /\ pc' = "index_raised" => /\ vectordb_for_txt' = NoIndex
                                  /\ pickle_file' = pickle_file]_vars

C15_Witness ==
    /\ pc = "load_raised"
    /\ Len(data) = 2
    /\ data[1].readable
    /\ data[1].content # <<>>
    /\ ~data[2].readable
    /\ docs = <<>>
    /\ vectordb_for_txt = NoIndex
    /\ pickle_file = FileOf(dumps(OldIndex))

\* The context of a prompt: the retrieved chunks joined by a blank line.
ContextOf(documents) ==
    join(<<"\n", "\n">>, [i \in 1..Len(documents) |-> documents[i].page_content])

\* C16 (as stated): the prompt sent for the answer is the template filled
\* with the retrieved context, the question and the conversation history; a
\* query made with a non-empty history sends a prompt that contains it.
C16_PromptWithHistory ==
    [][Retrieves =>
          LET e == retrievals'[Len(retrievals')]
          IN /\ prompt' # NoPrompt
             /\ prompt'[1].context = ContextOf(e.docs)
             /\ e.history # <<>> => /\ "chat_history" \in DOMAIN prompt'[1]
                                    /\ prompt'[1].chat_history = e.history]_vars

\* C16 (amended): the prompt sent for the answer is the template filled with
\* exactly the retrieved context and the question that was retrieved for;
\* with an empty history that is the user's question, with a non-empty
\* history the history is sent, with the user's question, in the prompt of
\* the question generator, whose reply is the question.
C16_PromptContextAndQuestion ==
    [][Retrieves =>
          LET e == retrievals'[Len(retrievals')]
          IN /\ prompt' = << [context |-> ContextOf(e.docs), question |-> e.question] >>
             /\ e.history = _get_chat_history(chat_history)
             /\ e.history = <<>> => condense_prompt' = condense_prompt
             /\ (e.history = <<>> /\ Len(submitted') > Len(submitted))
                   => e.question = submitted'[Len(submitted')][1]
             /\ e.history # <<>> =>
                   /\ condense_prompt' # NoPrompt
                   /\ DOMAIN condense_prompt'[1] = {"chat_history", "question"}
                   /\ condense_prompt'[1].chat_history = e.history]_vars

C16_Witness ==
    /\ Len(retrievals) >= 2
    /\ LastRetrieval.history # <<>>
    /\ Len(submitted) = Len(retrievals)
    /\ LastRetrieval.question # submitted[Len(submitted)][1]
    /\ prompt = << [context |-> ContextOf(LastRetrieval.docs),
                    question |-> LastRetrieval.question] >>
    /\ condense_prompt[1].chat_history = LastRetrieval.history
    /\ condense_prompt[1].question = submitted[Len(submitted)][1]

----------------------------------------------------------------------------
\* Properties of the guarded agent.run cell (checked under SpecTools).

\* A step that is the guarded cell.
GuardedStep == tpc = "run_equation" /\ tpc' # tpc

\* C19: the guarded cell always ends normally and the run goes on with the
\* next cell; when agent.run raised, error_out.txt holds exactly the text of
\* that exception and `answer` still holds the answer of the previous
\* agent.run cell; when agent.run returned, error_out.txt is as it was before
\* the cell.
C19_SwallowedError ==
    [][GuardedStep =>
          /\ cell_raised' = NoException
          /\ tpc' = "run_distance"
          /\ answer \in Answers
          /\ IF agent_service_error' # NoException
             THEN /\ error_out' = FileOf(str(agent_service_error'))
                  /\ answer' = answer
             ELSE /\ error_out' = error_out
                  /\ answer' \in Answers]_vars

C19_Witness ==
    /\ tpc = "run_distance"
    /\ agent_service_error # NoException
    /\ cell_raised = NoException
    /\ answer \in Answers
    /\ error_out = FileOf(str(agent_service_error))

----------------------------------------------------------------------------
\* Properties of the guarded extraction cell (checked under SpecTools).

\* A step that is the guarded extraction cell.
GuardedExtractionStep == tpc = "show_distance" /\ tpc' # tpc

\* The response has a "queryresult" object; its "pods" entry is missing or
\* an empty list.
HasQueryResult(response) == "queryresult" \in DOMAIN response
NoPods(response) ==
    \/ "pods" \notin DOMAIN response.queryresult
    \/ Len(response.queryresult.pods) = 0

\* The exception that the first pod's structure makes the extraction raise,
\* as a set of zero or one exception: "subpods" is missing, there is no
\* subpod, "img" is missing or "src" is missing.
MismatchOf(pod) ==
    IF "subpods" \notin DOMAIN pod
    THEN {[type |-> "KeyError", message |-> "'subpods'"]}
    ELSE IF Len(pod.subpods) = 0
    THEN {[type |-> "IndexError", message |-> "list index out of range"]}
    ELSE IF "img" \notin DOMAIN pod.subpods[1]
    THEN {[type |-> "KeyError", message |-> "'img'"]}
    ELSE IF "src" \notin DOMAIN pod.subpods[1].img
    THEN {[type |-> "KeyError", message |-> "'src'"]}
    ELSE {}

MismatchMessage(e) ==
    <<"wolfram alpha result json structure does not match common structure: ",
      e.message>>

\* C21: the guarded extraction cell always ends normally.  On a response with
\* a "queryresult" object whose "pods" is missing or empty it assigns no url
\* and prints nothing; on one whose first pod lacks "subpods", a subpod,
\* "img" or "src" it assigns no url and prints the mismatch message with the
\* exception's text; on the common structure it assigns the url and prints
\* nothing.
C21_GuardedExtraction ==
    [][GuardedExtractionStep =>
          /\ cell_raised' = NoException
          /\ tpc' = "done"
          /\ HasQueryResult(r[1]) =>
                IF NoPods(r[1])
                THEN image_url2' = image_url2 /\ printed' = printed
                ELSE LET pod == r[1].queryresult.pods[1]
                     IN IF MismatchOf(pod) # {}
                        THEN /\ image_url2' = image_url2
                             /\ \E e \in MismatchOf(pod) : printed' = MismatchMessage(e)
                        ELSE /\ image_url2' = <<pod.subpods[1].img.src>>
                             /\ printed' = printed]_vars

C21_Witness ==
    /\ tpc = "done"
    /\ cell_raised = NoException
    /\ HasQueryResult(r[1])
    /\ ~NoPods(r[1])
    /\ MismatchOf(r[1].queryresult.pods[1]) = {[type |-> "KeyError", message |-> "'img'"]}
    /\ image_url2 = NoUrl
    /\ printed = MismatchMessage([type |-> "KeyError", message |-> "'img'"])

----------------------------------------------------------------------------
\* Properties of the messages of the memory (checked under Spec).

\* C20: the memory holds two messages per returned qa(...) call, a human
\* message at every odd position and an AI message at every even one; the
\* history returned with an answer is the memory's and ends with the
\* question and the answer of that call.
C20_MessageStructure ==
    /\ Len(chat_history) = 2 * Len(submitted)
    /\ \A i \in 1..Len(chat_history) :
          chat_history[i].type = IF i % 2 = 1 THEN "human" ELSE "ai"
    /\ result # NoResult =>
          LET history == result[1].chat_history
          IN /\ history = chat_history
             /\ Len(history) >= 2
             /\ history[Len(history) - 1] = HumanMessage(result[1].question)
             /\ history[Len(history)] = AIMessage(result[1].answer)

C20_Witness ==
    /\ calls = 2
    /\ Len(submitted) = 2
    /\ Len(result[1].chat_history) = 4
    /\ result[1].chat_history[3] = HumanMessage(result[1].question)
    /\ result[1].chat_history[4] = AIMessage(result[1].answer)
    /\ result[1].chat_history[1].content # result[1].question

====
